---- MODULE Spec2Model ----
(***************************************************************************)
(* Balance reconciliation of the Moonwell event indexer.                   *)
(*                                                                         *)
(* The state is the three onchain tables of ponder.schema.ts               *)
(* (user_metrics, user_transactions, user_addresses), the error log file   *)
(* written by logError and the console.error stream.  Every handler that   *)
(* setupEventHandlers registers is one action that runs the whole handler, *)
(* storeEvent and the final upsert included.                               *)
(***************************************************************************)
EXTENDS Integers, Sequences, FiniteSets, TLC

(***************************************************************************)
(* Bounds of the model.                                                    *)
(***************************************************************************)
\* number of event deliveries (first deliveries and replays) in a behaviour
MaxEvents == 2

(***************************************************************************)
(* Market registry and the addresses that occur in events.                 *)
(***************************************************************************)
\* the first two entries of TOKENS: symbol and contract address
TOKENS ==
    << [symbol |-> "DAI",  address |-> "0x73b0"],
       [symbol |-> "USDC", address |-> "0xEdc8"] >>

Symbols == { TOKENS[i].symbol : i \in DOMAIN TOKENS }

\* const zeroAddress = '0x0000000000000000000000000000000000000000'
zeroAddress == "0x0000"

\* the accounts that act in the modelled events
Users == {"0xU", "0xV"}

Addresses == Users \cup {zeroAddress}

\* uint256 amounts carried by the events (one and two decimal digits)
Amounts == {3, 10}

\* the value of an optional field that is not set
undefined == "undefined"

(***************************************************************************)
(* Decimal strings: TokenData holds amounts as strings, written with       *)
(* bigint.toString() and read back with BigInt(string).  A string is a     *)
(* sequence of characters.                                                 *)
(***************************************************************************)
DigitChars == <<"0", "1", "2", "3", "4", "5", "6", "7", "8", "9">>

RECURSIVE NatToString(_)
NatToString(n) ==
    IF n < 10 THEN << DigitChars[n + 1] >>
    ELSE NatToString(n \div 10) \o << DigitChars[(n % 10) + 1] >>

\* bigint.prototype.toString(): a minus sign, then the decimal digits
toString(n) == IF n < 0 THEN <<"-">> \o NatToString(0 - n) ELSE NatToString(n)

DigitValue(c) == CHOOSE d \in 0..9 : DigitChars[d + 1] = c

RECURSIVE ParseDigits(_, _)
ParseDigits(s, acc) ==
    IF s = << >> THEN acc
    ELSE ParseDigits(Tail(s), acc * 10 + DigitValue(Head(s)))

\* BigInt(string): optional sign, decimal digits
BigInt(s) ==
    IF s # << >> /\ Head(s) = "-" THEN 0 - ParseDigits(Tail(s), 0)
    ELSE ParseDigits(s, 0)

ZeroString == <<"0">>

(***************************************************************************)
(* The tables.                                                             *)
(***************************************************************************)
\* db.find(userMetrics, ...) of an address without a row
null == [absent |-> TRUE]

\* a user_metrics row created by an insert: one jsonb column per token,
\* default []
NewMetricsRow == [sym \in Symbols |-> << >>]

\* the store before any event has been handled
EmptyStore ==
    [ userMetrics      |-> [a \in Addresses |-> null],
      userTransactions |-> << >>,
      userAddresses    |-> {},
      errorsLog        |-> << >>,
      consoleErrors    |-> << >>,
      unhandled        |-> FALSE ]

\* db.find(userMetrics, { userAddress })
Find(metrics, userAddress) == metrics[userAddress]

\* the column read of every handler: result[token.symbol] when the row
\* exists and the array has length 2, else the handler's default
TokenArrayOr(result, symbol, default) ==
    IF result # null /\ Len(result[symbol]) = 2 THEN result[symbol] ELSE default

\* an upsert that writes the pair into the column of every token
UpsertMetrics_AllColumns(metrics, userAddress, symbol, tokenData) ==
    [metrics EXCEPT ![userAddress] = [sym \in Symbols |-> tokenData]]

\* an update that does not insert the row of a new user
UpsertMetrics_UpdateOnly(metrics, userAddress, symbol, tokenData) ==
    IF metrics[userAddress] = null
    THEN metrics
    ELSE [metrics EXCEPT ![userAddress][symbol] = tokenData]

\* an upsert that rewrites the whole row instead of one column
UpsertMetrics_WholeRow(metrics, userAddress, symbol, tokenData) ==
    [metrics EXCEPT ![userAddress] = [NewMetricsRow EXCEPT ![symbol] = tokenData]]

\* db.insert(userMetrics).values({userAddress, [symbol]: tokenData})
\*   .onConflictDoUpdate({[symbol]: tokenData})
UpsertMetrics(metrics, userAddress, symbol, tokenData) ==
    IF metrics[userAddress] = null
    THEN [metrics EXCEPT ![userAddress] = [NewMetricsRow EXCEPT ![symbol] = tokenData]]
    ELSE [metrics EXCEPT ![userAddress][symbol] = tokenData]

\* the primary key of user_transactions: `${transactionHash}-${logIndex}`
\* (hashes have a fixed width, so the pair is the string)
\* a key made of the transaction hash alone
TransactionId_HashOnly(event) == <<event.transactionHash>>

\* id: `${event.transactionHash}-${event.logIndex}`
TransactionId(event) == <<event.transactionHash, event.logIndex>>

TransactionIds(transactions) == { transactions[i].id : i \in DOMAIN transactions }

\* the row that storeEvent inserts into user_transactions
TransactionRow(event) ==
    [ id              |-> TransactionId(event),
      userAddress     |-> event.user,
      mTokenAddress   |-> event.tokenAddress,
      tokenSymbol     |-> event.token,
      transactionType |-> event.type,
      amount          |-> event.amount,
      tokenAmount     |-> event.tokenAmount,
      relatedAddress  |-> event.relatedAddress,
      blockNumber     |-> event.blockNumber,
      blockTimestamp  |-> event.blockTimestamp,
      transactionHash |-> event.transactionHash ]

\* a row of user_addresses; the primary key is (userAddress, tokenSymbol)
AddressRow(userAddress, event) ==
    [ userAddress  |-> userAddress,
      tokenSymbol  |-> event.token,
      tokenAddress |-> event.tokenAddress ]

AddressKeys(addresses) == { <<r.userAddress, r.tokenSymbol>> : r \in addresses }

\* db.insert(userAddresses).values(row).onConflictDoNothing()
InsertAddress(addresses, row) ==
    IF <<row.userAddress, row.tokenSymbol>> \in AddressKeys(addresses)
    THEN addresses
    ELSE addresses \cup {row}

(***************************************************************************)
(* Fault Sidecar.  A storage call of a handler either returns or throws;   *)
(* `fault` names the call that throws in one run of a handler ("none": no  *)
(* call throws) and `appendOk` tells whether fs.promises.appendFile        *)
(* succeeds.                                                               *)
(***************************************************************************)
Faults ==
    {"none", "find", "find2", "insertTransaction", "insertAddress",
     "insertRelated", "upsert", "upsert2"}

\* logError without the try around appendFile
logError_NoCatch(store, error, context, appendOk) ==
    IF appendOk
    THEN [store EXCEPT !.errorsLog = Append(@, [context |-> context, error |-> error])]
    ELSE [store EXCEPT !.unhandled = TRUE]

\* logError(error, context): append to ./logs/errors.log, swallow a failure
logError(store, error, context, appendOk) ==
    IF appendOk
    THEN [store EXCEPT !.errorsLog = Append(@, [context |-> context, error |-> error])]
    ELSE [store EXCEPT !.consoleErrors = Append(@, "Failed to write to error log")]

\* a catch block that prints the error and throws it again
Catch_Rethrow(store, tag, error, context, appendOk) ==
    [store EXCEPT !.consoleErrors = Append(@, tag), !.unhandled = TRUE]

\* the catch block of a handler: console.error, then logError
Catch(store, tag, error, context, appendOk) ==
    logError([store EXCEPT !.consoleErrors = Append(@, tag)], error, context, appendOk)

(***************************************************************************)
(* storeEvent: transaction row, then the address links; the whole body is  *)
(* in one try block whose catch logs and returns.                          *)
(***************************************************************************)
\* an insert that does not look at the primary key
InsertTransactionThrows_NoKey(transactions, row, fault) ==
    fault = "insertTransaction"

\* db.insert(userTransactions).values(row), no conflict clause: a row with
\* the same primary key makes the insert throw

InsertTransactionThrows(transactions, row, fault) ==
    \/ fault = "insertTransaction"
    \/ row.id \in TransactionIds(transactions)

InsertTransactionError(transactions, row) ==
    IF row.id \in TransactionIds(transactions)
    THEN "UniqueConstraintError" ELSE "StorageError"

\* a storeEvent that links the user only
storeEvent_SkipsRelated(store, event, fault, appendOk) ==
    LET row == TransactionRow(event)
        context == [where |-> "Failed to store event", type |-> event.type,
                    user |-> event.user, token |-> event.token]
        s1 == [store EXCEPT !.userTransactions = Append(@, row)]
        s2 == [s1 EXCEPT !.userAddresses = InsertAddress(@, AddressRow(event.user, event))]
    IN  IF InsertTransactionThrows(store.userTransactions, row, fault)
        THEN Catch(store, "[DB ERROR]",
                   InsertTransactionError(store.userTransactions, row), context, appendOk)
        ELSE IF fault = "insertAddress"
        THEN Catch(s1, "[DB ERROR]", "StorageError", context, appendOk)
        ELSE s2

storeEvent(store, event, fault, appendOk) ==
    LET row == TransactionRow(event)
        context == [where |-> "Failed to store event", type |-> event.type,
                    user |-> event.user, token |-> event.token]
        s1 == [store EXCEPT !.userTransactions = Append(@, row)]
        s2 == [s1 EXCEPT !.userAddresses = InsertAddress(@, AddressRow(event.user, event))]
        s3 == [s2 EXCEPT !.userAddresses =
                   InsertAddress(@, AddressRow(event.relatedAddress, event))]
    IN  IF InsertTransactionThrows(store.userTransactions, row, fault)
        THEN Catch(store, "[DB ERROR]",
                   InsertTransactionError(store.userTransactions, row), context, appendOk)
        ELSE IF fault = "insertAddress"
        THEN Catch(s1, "[DB ERROR]", "StorageError", context, appendOk)
        ELSE IF event.relatedAddress = undefined
        THEN s2
        ELSE IF fault = "insertRelated"
        THEN Catch(s2, "[DB ERROR]", "StorageError", context, appendOk)
        ELSE s3

(***************************************************************************)
(* Event Normalizer: the IndexedEvent that each handler builds.            *)
(***************************************************************************)
\* token.address of the market whose symbol is `symbol`
TokenAddress(symbol) ==
    TOKENS[CHOOSE i \in DOMAIN TOKENS : TOKENS[i].symbol = symbol].address

IndexedEvent(type, user, relatedAddress, amount, tokenAmount, event) ==
    [ type            |-> type,
      user            |-> user,
      token           |-> event.token,
      tokenAddress    |-> TokenAddress(event.token),
      amount          |-> amount,
      tokenAmount     |-> tokenAmount,
      relatedAddress  |-> relatedAddress,
      blockNumber     |-> event.block.number,
      blockTimestamp  |-> event.block.timestamp,
      transactionHash |-> event.transaction.hash,
      logIndex        |-> event.log.logIndex ]

(***************************************************************************)
(* Balance Reconciler: the handlers.  Each operator gives the store after  *)
(* the whole handler has run on `event`, the decoded log of market         *)
(* event.token.  TokenData [amountSupplied, amountBorrowed] is indexed     *)
(* from 1 here.                                                            *)
(***************************************************************************)
HasTokenArray(result, symbol) == result # null /\ Len(result[symbol]) = 2

\* the snapshot without the copy of the stored amountSupplied
SnapshotTokenData_DropSupplied(result, symbol, accountBorrows) ==
    << ZeroString, toString(accountBorrows) >>

\* the snapshot applied as a delta to the stored amountBorrowed
SnapshotTokenData_Accumulate(result, symbol, accountBorrows) ==
    IF HasTokenArray(result, symbol)
    THEN << result[symbol][1], toString(BigInt(result[symbol][2]) + accountBorrows) >>
    ELSE << ZeroString, toString(accountBorrows) >>

\* Borrow and RepayBorrow: ["0", accountBorrows], with the stored
\* amountSupplied when the user has a pair for the token
SnapshotTokenData(result, symbol, accountBorrows) ==
    IF HasTokenArray(result, symbol)
    THEN << result[symbol][1], toString(accountBorrows) >>
    ELSE << ZeroString, toString(accountBorrows) >>

BorrowHandler(store, event, fault, appendOk) ==
    LET borrower == event.args.borrower
        symbol == event.token
        context == [where |-> "Borrow event error", token |-> symbol, user |-> borrower]
        indexedEvent == IndexedEvent("Borrow", borrower, undefined,
                                     event.args.borrowAmount, undefined, event)
        result == Find(store.userMetrics, borrower)
        tokenData == SnapshotTokenData(result, symbol, event.args.accountBorrows)
        s1 == storeEvent(store, indexedEvent, fault, appendOk)
    IN  IF fault = "find"
        THEN Catch(store, "[EVENT ERROR]", "StorageError", context, appendOk)
        ELSE IF fault = "upsert"
        THEN Catch(s1, "[EVENT ERROR]", "StorageError", context, appendOk)
        ELSE [s1 EXCEPT !.userMetrics = UpsertMetrics(@, borrower, symbol, tokenData)]

\* a RepayBorrow handler that records the payer whoever it is
RepayBorrowHandler_AlwaysPayer(store, event, fault, appendOk) ==
    LET borrower == event.args.borrower
        payer == event.args.payer
        symbol == event.token
        context == [where |-> "RepayBorrow event error", token |-> symbol,
                    user |-> borrower, payer |-> payer]
        indexedEvent == IndexedEvent("RepayBorrow", borrower, payer,
                                     event.args.repayAmount, undefined, event)
        result == Find(store.userMetrics, borrower)
        tokenData == SnapshotTokenData(result, symbol, event.args.accountBorrows)
        s1 == storeEvent(store, indexedEvent, fault, appendOk)
    IN  IF fault = "find"
        THEN Catch(store, "[EVENT ERROR]", "StorageError", context, appendOk)
        ELSE IF fault = "upsert"
        THEN Catch(s1, "[EVENT ERROR]", "StorageError", context, appendOk)
        ELSE [s1 EXCEPT !.userMetrics = UpsertMetrics(@, borrower, symbol, tokenData)]

RepayBorrowHandler(store, event, fault, appendOk) ==
    LET borrower == event.args.borrower
        payer == event.args.payer
        symbol == event.token
        context == [where |-> "RepayBorrow event error", token |-> symbol,
                    user |-> borrower, payer |-> payer]
        indexedEvent == IndexedEvent("RepayBorrow", borrower,
                                     IF payer # borrower THEN payer ELSE undefined,
                                     event.args.repayAmount, undefined, event)
        result == Find(store.userMetrics, borrower)
        tokenData == SnapshotTokenData(result, symbol, event.args.accountBorrows)
        s1 == storeEvent(store, indexedEvent, fault, appendOk)
    IN  IF fault = "find"
        THEN Catch(store, "[EVENT ERROR]", "StorageError", context, appendOk)
        ELSE IF fault = "upsert"
        THEN Catch(s1, "[EVENT ERROR]", "StorageError", context, appendOk)
        ELSE [s1 EXCEPT !.userMetrics = UpsertMetrics(@, borrower, symbol, tokenData)]

\* a Mint handler that also credits the minted amount to the minter
MintHandler_CreditsSupply(store, event, fault, appendOk) ==
    LET s1 == storeEvent(store,
                         IndexedEvent("Mint", event.args.minter, undefined,
                                      event.args.mintAmount, event.args.mintTokens, event),
                         fault, appendOk)
        tokenData == TokenArrayOr(Find(s1.userMetrics, event.args.minter), event.token,
                                  << ZeroString, ZeroString >>)
    IN  [s1 EXCEPT !.userMetrics =
             UpsertMetrics(@, event.args.minter, event.token,
                           [tokenData EXCEPT ![1] =
                                toString(BigInt(tokenData[1]) + event.args.mintTokens)])]

\* Mint and Redeem only store the event
MintHandler(store, event, fault, appendOk) ==
    storeEvent(store,
               IndexedEvent("Mint", event.args.minter, undefined,
                            event.args.mintAmount, event.args.mintTokens, event),
               fault, appendOk)

RedeemHandler(store, event, fault, appendOk) ==
    storeEvent(store,
               IndexedEvent("Redeem", event.args.redeemer, undefined,
                            event.args.redeemAmount, event.args.redeemTokens, event),
               fault, appendOk)

\* the repaid amount taken from the other element of the pair
LiquidateTokenData_FromSupplied(result, symbol, repayAmount) ==
    IF HasTokenArray(result, symbol)
    THEN << toString(BigInt(result[symbol][1]) - repayAmount), result[symbol][2] >>
    ELSE << ZeroString, ZeroString >>

\* LiquidateBorrow: the borrower's amountBorrowed minus repayAmount when the
\* borrower has a pair for the token, else ["0", "0"]
LiquidateTokenData(result, symbol, repayAmount) ==
    IF HasTokenArray(result, symbol)
    THEN << result[symbol][1], toString(BigInt(result[symbol][2]) - repayAmount) >>
    ELSE << ZeroString, ZeroString >>

LiquidateBorrowHandler(store, event, fault, appendOk) ==
    LET liquidator == event.args.liquidator
        borrower == event.args.borrower
        symbol == event.token
        context == [where |-> "LiquidateBorrow event error", token |-> symbol,
                    user |-> liquidator, borrower |-> borrower]
        indexedEvent == IndexedEvent("LiquidateBorrow", liquidator, borrower,
                                     event.args.repayAmount, event.args.seizeTokens, event)
        s1 == storeEvent(store, indexedEvent, fault, appendOk)
        borrowerResult == Find(s1.userMetrics, borrower)
        borrowerTokenData ==
            LiquidateTokenData(borrowerResult, symbol, event.args.repayAmount)
    IN  IF fault \in {"find", "upsert"}
        THEN Catch(s1, "[EVENT ERROR]", "StorageError", context, appendOk)
        ELSE [s1 EXCEPT !.userMetrics = UpsertMetrics(@, borrower, symbol, borrowerTokenData)]

\* Transfer with a pair that is always started afresh, whatever the row holds
TransferTokenData_Fresh(result, symbol) ==
    << ZeroString, ZeroString >>

\* Transfer: the pair that a branch starts from,
\* (result?.[token.symbol] as TokenData) || ['0', '0']
TransferTokenData(result, symbol) ==
    TokenArrayOr(result, symbol, << ZeroString, ZeroString >>)

\* the receiver's side without the read of the current amountSupplied
AddSupplied_Overwrite(tokenData, amount) ==
    [tokenData EXCEPT ![1] = toString(amount)]

\* toTokenData[0] = (BigInt(toTokenData[0]) + amount).toString()
AddSupplied(tokenData, amount) ==
    [tokenData EXCEPT ![1] = toString(BigInt(tokenData[1]) + amount)]

\* the sender's side with the comparison reversed
SubtractSupplied_Reversed(tokenData, amount) ==
    IF BigInt(tokenData[1]) < amount
    THEN [tokenData EXCEPT ![1] = toString(BigInt(tokenData[1]) - amount)]
    ELSE [tokenData EXCEPT ![1] = ZeroString]

\* the sender's side: subtract when currentSupplied >= amount, else "0"
SubtractSupplied(tokenData, amount) ==
    IF BigInt(tokenData[1]) >= amount
    THEN [tokenData EXCEPT ![1] = toString(BigInt(tokenData[1]) - amount)]
    ELSE [tokenData EXCEPT ![1] = ZeroString]

\* console.error(`[BALANCE ERROR] Insufficient balance ...`) of the else branch
BalanceError(store, tokenData, amount) ==
    IF BigInt(tokenData[1]) >= amount
    THEN store
    ELSE [store EXCEPT !.consoleErrors = Append(@, "[BALANCE ERROR]")]

TransferHandler(store, event, fault, appendOk) ==
    LET from == event.args.from
        to == event.args.to
        amount == event.args.amount
        symbol == event.token
        context == [where |-> "Error processing Transfer event", token |-> symbol]
        indexedEvent == IndexedEvent("Transfer", from,
                                     IF to # from THEN to ELSE undefined,
                                     amount, undefined, event)
        s1 == storeEvent(store, indexedEvent, fault, appendOk)
        fromTokenData == TransferTokenData(Find(s1.userMetrics, from), symbol)
        toTokenData == TransferTokenData(Find(s1.userMetrics, to), symbol)
        caught(s) == Catch(s, "[EVENT ERROR]", "StorageError", context, appendOk)
    IN  IF from = zeroAddress
        THEN \* mint: increase to's supplied
             IF fault \in {"find", "upsert"}
             THEN caught(s1)
             ELSE [s1 EXCEPT !.userMetrics =
                       UpsertMetrics(@, to, symbol, AddSupplied(toTokenData, amount))]
        ELSE IF to = zeroAddress
        THEN \* burn: decrease from's supplied
             IF fault = "find"
             THEN caught(s1)
             ELSE LET s2 == BalanceError(s1, fromTokenData, amount)
                  IN  IF fault = "upsert"
                      THEN caught(s2)
                      ELSE [s2 EXCEPT !.userMetrics =
                                UpsertMetrics(@, from, symbol,
                                              SubtractSupplied(fromTokenData, amount))]
        ELSE \* regular transfer: decrease from, increase to
             IF fault \in {"find", "find2"}
             THEN caught(s1)
             ELSE LET s2 == BalanceError(s1, fromTokenData, amount)
                      s3 == [s2 EXCEPT !.userMetrics =
                                 UpsertMetrics(@, from, symbol,
                                               SubtractSupplied(fromTokenData, amount))]
                  IN  IF fault = "upsert"
                      THEN caught(s2)
                      ELSE IF fault = "upsert2"
                      THEN caught(s3)
                      ELSE [s3 EXCEPT !.userMetrics =
                                UpsertMetrics(@, to, symbol, AddSupplied(toTokenData, amount))]

(***************************************************************************)
(* The event source.  A log of the chain is identified by its transaction  *)
(* hash and log index; logs are first delivered in chain order and a       *)
(* delivered log may be delivered again (replay) with the same content.    *)
(***************************************************************************)
ChainLogs ==
    << [transaction |-> [hash |-> "0xa1"], log |-> [logIndex |-> 0],
        block |-> [number |-> 2300001, timestamp |-> 1700000002]],
       [transaction |-> [hash |-> "0xa1"], log |-> [logIndex |-> 1],
        block |-> [number |-> 2300001, timestamp |-> 1700000002]],
       [transaction |-> [hash |-> "0xb2"], log |-> [logIndex |-> 1],
        block |-> [number |-> 2300002, timestamp |-> 1700000004]],
       [transaction |-> [hash |-> "0xb2"], log |-> [logIndex |-> 2],
        block |-> [number |-> 2300002, timestamp |-> 1700000004]] >>

\* a decoded event of market `symbol` at chain position l
Event(name, symbol, args, l) ==
    [ name |-> name, token |-> symbol, args |-> args,
      transaction |-> l.transaction, log |-> l.log, block |-> l.block ]

\* mintTokens, redeemTokens, seizeTokens: the amount in market tokens
TokenAmounts == {50}

\* the decoded events that a market can emit at chain position l
BorrowEvents(l) ==
    { Event("Borrow", sym, [borrower |-> u, borrowAmount |-> a, accountBorrows |-> b], l) :
        sym \in Symbols, u \in Users, a \in Amounts, b \in Amounts }

RepayBorrowEvents(l) ==
    { Event("RepayBorrow", sym,
            [payer |-> p[1], borrower |-> p[2], repayAmount |-> ab[1], accountBorrows |-> ab[2]], l) :
        sym \in Symbols, p \in Users \X Users, ab \in Amounts \X Amounts }

MintEvents(l) ==
    { Event("Mint", sym, [minter |-> u, mintAmount |-> a, mintTokens |-> t], l) :
        sym \in Symbols, u \in Users, a \in Amounts, t \in TokenAmounts }

RedeemEvents(l) ==
    { Event("Redeem", sym, [redeemer |-> u, redeemAmount |-> a, redeemTokens |-> t], l) :
        sym \in Symbols, u \in Users, a \in Amounts, t \in TokenAmounts }

LiquidateBorrowEvents(l) ==
    { Event("LiquidateBorrow", sym,
            [liquidator |-> p[1], borrower |-> p[2], repayAmount |-> a, seizeTokens |-> t], l) :
        sym \in Symbols, p \in Users \X Users, a \in Amounts, t \in TokenAmounts }

TransferEvents(l) ==
    { Event("Transfer", sym, [from |-> p[1], to |-> p[2], amount |-> a], l) :
        sym \in Symbols,
        p \in (Addresses \X Addresses) \ {<<zeroAddress, zeroAddress>>},
        a \in Amounts }

(***************************************************************************)
(* State.                                                                  *)
(***************************************************************************)
VARIABLES
    userMetrics,        \* user_metrics: address -> row (or null)
    userTransactions,   \* user_transactions, in insertion order
    userAddresses,      \* user_addresses
    errorsLog,          \* the records appended to ./logs/errors.log
    consoleErrors,      \* the console.error calls
    unhandled,          \* a handler's promise was rejected (an error escaped it)
    delivered,          \* the deliveries so far: event, fault, appendOk
    before,             \* the store when the last handler was entered
    running             \* the handlers in flight: event, next await, locals

vars == << userMetrics, userTransactions, userAddresses, errorsLog,
           consoleErrors, unhandled, delivered, before, running >>

\* the handler invocations that can be in flight together
Slots == {1, 2}

\* no invocation in the slot
Idle == [pc |-> "idle"]

Store ==
    [ userMetrics      |-> userMetrics,
      userTransactions |-> userTransactions,
      userAddresses    |-> userAddresses,
      errorsLog        |-> errorsLog,
      consoleErrors    |-> consoleErrors,
      unhandled        |-> unhandled ]

Init ==
    /\ userMetrics = EmptyStore.userMetrics
    /\ userTransactions = EmptyStore.userTransactions
    /\ userAddresses = EmptyStore.userAddresses
    /\ errorsLog = EmptyStore.errorsLog
    /\ consoleErrors = EmptyStore.consoleErrors
    /\ unhandled = EmptyStore.unhandled
    /\ delivered = << >>
    /\ before = EmptyStore
    /\ running = [slot \in Slots |-> Idle]

\* the events delivered so far, each once
DeliveredEvents == { delivered[i].event : i \in DOMAIN delivered }

\* the position of the chain that has not been delivered yet
NextLog == ChainLogs[Cardinality(DeliveredEvents) + 1]

\* the events that ponder can hand to the handler `name` now: a replay of a
\* delivered event, or one of `events`, the events at the next position;
\* indexing stops when a handler has rejected
Deliverable(name, events) ==
    IF Len(delivered) >= MaxEvents \/ unhandled THEN {}
    ELSE { e \in DeliveredEvents : e.name = name }
         \cup (IF Cardinality(DeliveredEvents) < Len(ChainLogs) THEN events ELSE {})

\* one run of a handler: the store after it, and the bookkeeping
Handle(event, fault, appendOk, after) ==
    /\ userMetrics' = after.userMetrics
    /\ userTransactions' = after.userTransactions
    /\ userAddresses' = after.userAddresses
    /\ errorsLog' = after.errorsLog
    /\ consoleErrors' = after.consoleErrors
    /\ unhandled' = after.unhandled
    /\ delivered' = Append(delivered, [event |-> event, fault |-> fault, appendOk |-> appendOk])
    /\ before' = Store
    /\ UNCHANGED running

OnBorrow(F, W) ==
    \E event \in Deliverable("Borrow", BorrowEvents(NextLog)), fault \in F, appendOk \in W :
        Handle(event, fault, appendOk, BorrowHandler(Store, event, fault, appendOk))

OnRepayBorrow(F, W) ==
    \E event \in Deliverable("RepayBorrow", RepayBorrowEvents(NextLog)), fault \in F, appendOk \in W :
        Handle(event, fault, appendOk, RepayBorrowHandler(Store, event, fault, appendOk))

OnMint(F, W) ==
    \E event \in Deliverable("Mint", MintEvents(NextLog)), fault \in F, appendOk \in W :
        Handle(event, fault, appendOk, MintHandler(Store, event, fault, appendOk))

OnRedeem(F, W) ==
    \E event \in Deliverable("Redeem", RedeemEvents(NextLog)), fault \in F, appendOk \in W :
        Handle(event, fault, appendOk, RedeemHandler(Store, event, fault, appendOk))

OnLiquidateBorrow(F, W) ==
    \E event \in Deliverable("LiquidateBorrow", LiquidateBorrowEvents(NextLog)), fault \in F, appendOk \in W :
        Handle(event, fault, appendOk, LiquidateBorrowHandler(Store, event, fault, appendOk))

OnTransfer(F, W) ==
    \E event \in Deliverable("Transfer", TransferEvents(NextLog)), fault \in F, appendOk \in W :
        Handle(event, fault, appendOk, TransferHandler(Store, event, fault, appendOk))

\* the deliveries in which every storage call returns and the error log is
\* writable; the handlers take the failing call as a parameter
Next ==
    \/ OnBorrow({"none"}, {TRUE})
    \/ OnRepayBorrow({"none"}, {TRUE})
    \/ OnMint({"none"}, {TRUE})
    \/ OnRedeem({"none"}, {TRUE})
    \/ OnLiquidateBorrow({"none"}, {TRUE})
    \/ OnTransfer({"none"}, {TRUE})

Spec == Init /\ [][Next]_vars

(***************************************************************************)
(* Deliveries with failing storage calls.  A delivery is troubled when one *)
(* of the handler's storage calls throws or the error log cannot be        *)
(* written; the events are those of one market with one amount.            *)
(***************************************************************************)
\* number of troubled deliveries in a behaviour
MaxFaulty == 1

FaultAmounts == {10}

EventAmounts(event) ==
    CASE event.name = "Borrow" -> {event.args.borrowAmount, event.args.accountBorrows}
      [] event.name = "RepayBorrow" -> {event.args.repayAmount, event.args.accountBorrows}
      [] event.name = "Mint" -> {event.args.mintAmount}
      [] event.name = "Redeem" -> {event.args.redeemAmount}
      [] event.name = "LiquidateBorrow" -> {event.args.repayAmount}
      [] event.name = "Transfer" -> {event.args.amount}

FaultScope(events) ==
    { e \in events : e.token = TOKENS[1].symbol /\ EventAmounts(e) \subseteq FaultAmounts }

\* the awaited storage calls of each handler, storeEvent's included
FaultsOf(name) ==
    CASE name \in {"Mint", "Redeem"} -> {"none", "insertTransaction", "insertAddress"}
      [] name = "Borrow" -> {"none", "find", "insertTransaction", "insertAddress", "upsert"}
      [] name \in {"RepayBorrow", "LiquidateBorrow"} ->
             {"none", "find", "insertTransaction", "insertAddress", "insertRelated", "upsert"}
      [] name = "Transfer" -> Faults

Troubled(d) == d.fault # "none" \/ ~d.appendOk

\* what the environment may do to the next delivery
Outcomes(name) ==
    IF Cardinality({ i \in DOMAIN delivered : Troubled(delivered[i]) }) < MaxFaulty
    THEN [fault : FaultsOf(name), appendOk : BOOLEAN]
    ELSE [fault : {"none"}, appendOk : {TRUE}]

OnBorrowFault ==
    \E event \in FaultScope(Deliverable("Borrow", BorrowEvents(NextLog))),
       o \in Outcomes("Borrow") :
        Handle(event, o.fault, o.appendOk, BorrowHandler(Store, event, o.fault, o.appendOk))

OnRepayBorrowFault ==
    \E event \in FaultScope(Deliverable("RepayBorrow", RepayBorrowEvents(NextLog))),
       o \in Outcomes("RepayBorrow") :
        Handle(event, o.fault, o.appendOk, RepayBorrowHandler(Store, event, o.fault, o.appendOk))

OnMintFault ==
    \E event \in FaultScope(Deliverable("Mint", MintEvents(NextLog))),
       o \in Outcomes("Mint") :
        Handle(event, o.fault, o.appendOk, MintHandler(Store, event, o.fault, o.appendOk))

OnRedeemFault ==
    \E event \in FaultScope(Deliverable("Redeem", RedeemEvents(NextLog))),
       o \in Outcomes("Redeem") :
        Handle(event, o.fault, o.appendOk, RedeemHandler(Store, event, o.fault, o.appendOk))

OnLiquidateBorrowFault ==
    \E event \in FaultScope(Deliverable("LiquidateBorrow", LiquidateBorrowEvents(NextLog))),
       o \in Outcomes("LiquidateBorrow") :
        Handle(event, o.fault, o.appendOk,
               LiquidateBorrowHandler(Store, event, o.fault, o.appendOk))

OnTransferFault ==
    \E event \in FaultScope(Deliverable("Transfer", TransferEvents(NextLog))),
       o \in Outcomes("Transfer") :
        Handle(event, o.fault, o.appendOk, TransferHandler(Store, event, o.fault, o.appendOk))

NextFault ==
    \/ OnBorrowFault
    \/ OnRepayBorrowFault
    \/ OnMintFault
    \/ OnRedeemFault
    \/ OnLiquidateBorrowFault
    \/ OnTransferFault

SpecFault == Init /\ [][NextFault]_vars

(***************************************************************************)
(* Two handlers in flight.  A handler is an async function: between two of *)
(* its awaits another handler can run.  Here every await is one step; the  *)
(* code between two awaits runs with the step that follows it.  The        *)
(* handlers call the store directly, with no lock, queue or transaction.   *)
(***************************************************************************)
\* the awaits of a handler in the order of its code
Awaits(event) ==
    IF event.name \in {"Borrow", "RepayBorrow"}
    THEN << "find", "storeEvent", "upsert" >>
    ELSE IF event.args.from = zeroAddress
    THEN << "storeEvent", "findTo", "upsertTo" >>
    ELSE IF event.args.to = zeroAddress
    THEN << "storeEvent", "findFrom", "upsertFrom" >>
    ELSE << "storeEvent", "findFrom", "findTo", "upsertFrom", "upsertTo" >>

\* the IndexedEvent that the handler of `event` passes to storeEvent
NormalizedEvent(event) ==
    CASE event.name = "Borrow" ->
             IndexedEvent("Borrow", event.args.borrower, undefined,
                          event.args.borrowAmount, undefined, event)
      [] event.name = "RepayBorrow" ->
             IndexedEvent("RepayBorrow", event.args.borrower,
                          IF event.args.payer # event.args.borrower
                          THEN event.args.payer ELSE undefined,
                          event.args.repayAmount, undefined, event)
      [] event.name = "Transfer" ->
             IndexedEvent("Transfer", event.args.from,
                          IF event.args.to # event.args.from
                          THEN event.args.to ELSE undefined,
                          event.args.amount, undefined, event)

\* the events of one market that the two invocations are about
RaceEvents(slot) ==
    { e \in TransferEvents(ChainLogs[slot])
            \cup (IF slot = 1 THEN {}
                  ELSE BorrowEvents(ChainLogs[slot])
                           \cup RepayBorrowEvents(ChainLogs[slot])) :
        e.token = TOKENS[1].symbol }

\* the await at which the invocation in `slot` stands
NextAwait(slot) ==
    IF running[slot] = Idle \/ running[slot].at > Len(Awaits(running[slot].event))
    THEN "none"
    ELSE Awaits(running[slot].event)[running[slot].at]

\* ponder.on(...) calls the handler: it runs up to its first await
StartHandler(slot) ==
    /\ running[slot] = Idle
    /\ \E event \in RaceEvents(slot) :
           /\ running' = [running EXCEPT ![slot] =
                              [ event |-> event, at |-> 1,
                                tokenData |-> << ZeroString, ZeroString >>,
                                toTokenData |-> << ZeroString, ZeroString >> ]]
           /\ delivered' = Append(delivered,
                                  [event |-> event, fault |-> "none", appendOk |-> TRUE])
    /\ UNCHANGED << userMetrics, userTransactions, userAddresses, errorsLog,
                    consoleErrors, unhandled, before >>

\* await context.db.find(userMetrics, ...) and the assignment of the pair
AwaitFind(slot) ==
    LET r == running[slot]
        event == r.event
    IN  /\ NextAwait(slot) \in {"find", "findFrom", "findTo"}
        /\ running' = [running EXCEPT ![slot] =
               IF NextAwait(slot) = "find"
               THEN [r EXCEPT !.at = @ + 1,
                              !.tokenData =
                                  SnapshotTokenData(Find(userMetrics, event.args.borrower),
                                                    event.token, event.args.accountBorrows)]
               ELSE IF NextAwait(slot) = "findFrom"
               THEN [r EXCEPT !.at = @ + 1,
                              !.tokenData =
                                  TransferTokenData(Find(userMetrics, event.args.from),
                                                    event.token)]
               ELSE [r EXCEPT !.at = @ + 1,
                              !.toTokenData =
                                  TransferTokenData(Find(userMetrics, event.args.to),
                                                    event.token)]]
        /\ UNCHANGED << userMetrics, userTransactions, userAddresses, errorsLog,
                        consoleErrors, unhandled, delivered, before >>

\* await storeEvent(context, indexedEvent)
AwaitStoreEvent(slot) ==
    LET after == storeEvent(Store, NormalizedEvent(running[slot].event), "none", TRUE)
    IN  /\ NextAwait(slot) = "storeEvent"
        /\ running' = [running EXCEPT ![slot].at = @ + 1]
        /\ userTransactions' = after.userTransactions
        /\ userAddresses' = after.userAddresses
        /\ errorsLog' = after.errorsLog
        /\ consoleErrors' = after.consoleErrors
        /\ UNCHANGED << userMetrics, unhandled, delivered, before >>

\* await context.db.insert(userMetrics)...onConflictDoUpdate(...) with the
\* pair computed from what the invocation read
AwaitUpsert(slot) ==
    LET r == running[slot]
        event == r.event
        after ==
            IF NextAwait(slot) = "upsert"
            THEN [Store EXCEPT !.userMetrics =
                      UpsertMetrics(@, event.args.borrower, event.token, r.tokenData)]
            ELSE IF NextAwait(slot) = "upsertFrom"
            THEN [BalanceError(Store, r.tokenData, event.args.amount)
                      EXCEPT !.userMetrics =
                          UpsertMetrics(@, event.args.from, event.token,
                                        SubtractSupplied(r.tokenData, event.args.amount))]
            ELSE [Store EXCEPT !.userMetrics =
                      UpsertMetrics(@, event.args.to, event.token,
                                    AddSupplied(r.toTokenData, event.args.amount))]
    IN  /\ NextAwait(slot) \in {"upsert", "upsertFrom", "upsertTo"}
        /\ running' = [running EXCEPT ![slot].at = @ + 1]
        /\ userMetrics' = after.userMetrics
        /\ consoleErrors' = after.consoleErrors
        /\ UNCHANGED << userTransactions, userAddresses, errorsLog, unhandled,
                        delivered, before >>

NextRace ==
    \/ \E slot \in Slots : StartHandler(slot)
    \/ \E slot \in Slots : AwaitFind(slot)
    \/ \E slot \in Slots : AwaitStoreEvent(slot)
    \/ \E slot \in Slots : AwaitUpsert(slot)

SpecRace == Init /\ [][NextRace]_vars

(***************************************************************************)
(* Two handlers in flight on two markets: the invocation in slot i handles *)
(* an event of the contract of TOKENS[i].                                  *)
(***************************************************************************)
\* the events of market TOKENS[slot] at the chain position of the slot
MarketEvents(slot) ==
    { e \in TransferEvents(ChainLogs[slot])
            \cup BorrowEvents(ChainLogs[slot])
            \cup RepayBorrowEvents(ChainLogs[slot]) :
        e.token = TOKENS[slot].symbol /\ EventAmounts(e) \subseteq FaultAmounts }

\* ponder.on(...) of the contract of TOKENS[slot] calls the handler
StartHandlerOfMarket(slot) ==
    /\ running[slot] = Idle
    /\ \E event \in MarketEvents(slot) :
           /\ running' = [running EXCEPT ![slot] =
                              [ event |-> event, at |-> 1,
                                tokenData |-> << ZeroString, ZeroString >>,
                                toTokenData |-> << ZeroString, ZeroString >> ]]
           /\ delivered' = Append(delivered,
                                  [event |-> event, fault |-> "none", appendOk |-> TRUE])
    /\ UNCHANGED << userMetrics, userTransactions, userAddresses, errorsLog,
                    consoleErrors, unhandled, before >>

NextMarkets ==
    \/ \E slot \in Slots : StartHandlerOfMarket(slot)
    \/ \E slot \in Slots : AwaitFind(slot)
    \/ \E slot \in Slots : AwaitStoreEvent(slot)
    \/ \E slot \in Slots : AwaitUpsert(slot)

SpecMarkets == Init /\ [][NextMarkets]_vars

(***************************************************************************)
(* Handlers run one after the other, await by await, with storage calls    *)
(* that return or throw.  Ponder awaits the promise of a handler before it *)
(* calls the handler of the next event.  A storage call that is pending    *)
(* eventually returns or throws, and an event that is due is eventually    *)
(* delivered: these are the fairness conditions.                           *)
(***************************************************************************)
\* the handler in `slot` has returned
Ended(slot) == running[slot] # Idle /\ NextAwait(slot) = "none"

\* the errorContext of the catch block of the handler of `event`
ErrorContext(event) ==
    CASE event.name = "Borrow" ->
             [where |-> "Borrow event error", token |-> event.token,
              user |-> event.args.borrower]
      [] event.name = "RepayBorrow" ->
             [where |-> "RepayBorrow event error", token |-> event.token,
              user |-> event.args.borrower, payer |-> event.args.payer]
      [] event.name = "Transfer" ->
             [where |-> "Error processing Transfer event", token |-> event.token]

\* ponder calls the handler of the next event when the handlers of the
\* events before it have returned
DeliverNext(slot) ==
    /\ \A earlier \in Slots : earlier < slot => Ended(earlier)
    /\ StartHandler(slot)
    /\ EventAmounts(running'[slot].event) \subseteq FaultAmounts

\* a retry: the handler starts over when a storage call throws
AwaitThrows_Retry(slot) ==
    /\ NextAwait(slot) # "none"
    /\ running' = [running EXCEPT ![slot].at = 1]
    /\ UNCHANGED << userMetrics, userTransactions, userAddresses, errorsLog,
                    consoleErrors, unhandled, delivered, before >>

\* the pending storage call throws: inside storeEvent the error is caught
\* there and the handler goes on; elsewhere the catch block of the handler
\* runs and the handler returns
AwaitThrows(slot) ==
    /\ NextAwait(slot) # "none"
    /\ \E appendOk \in BOOLEAN :
         \E fault \in {"insertTransaction", "insertAddress", "insertRelated"} :
           LET event == running[slot].event
               after ==
                   IF NextAwait(slot) = "storeEvent"
                   THEN storeEvent(Store, NormalizedEvent(event), fault, appendOk)
                   ELSE Catch(Store, "[EVENT ERROR]", "StorageError",
                              ErrorContext(event), appendOk)
           IN  /\ running' = [running EXCEPT ![slot].at =
                                  IF NextAwait(slot) = "storeEvent"
                                  THEN @ + 1
                                  ELSE Len(Awaits(event)) + 1]
               /\ userTransactions' = after.userTransactions
               /\ userAddresses' = after.userAddresses
               /\ errorsLog' = after.errorsLog
               /\ consoleErrors' = after.consoleErrors
               /\ unhandled' = after.unhandled
    /\ UNCHANGED << userMetrics, delivered, before >>

\* the pending storage call of the handler in `slot` returns or throws
AwaitSettles(slot) ==
    \/ AwaitFind(slot)
    \/ AwaitStoreEvent(slot)
    \/ AwaitUpsert(slot)
    \/ AwaitThrows(slot)

NextLive ==
    \/ \E slot \in Slots : DeliverNext(slot)
    \/ \E slot \in Slots : AwaitFind(slot)
    \/ \E slot \in Slots : AwaitStoreEvent(slot)
    \/ \E slot \in Slots : AwaitUpsert(slot)
    \/ \E slot \in Slots : AwaitThrows(slot)

SpecLive ==
    /\ Init
    /\ [][NextLive]_vars
    /\ \A slot \in Slots : WF_vars(DeliverNext(slot))
    /\ \A slot \in Slots : WF_vars(AwaitSettles(slot))

(***************************************************************************)
(* Reading a position and the last delivery.                               *)
(***************************************************************************)
\* amountSupplied and amountBorrowed of (user, symbol) as the handlers read
\* them: the pair ("0", "0") when the row or the token array is missing
amountSupplied(metrics, user, symbol) ==
    BigInt(TokenArrayOr(Find(metrics, user), symbol, << ZeroString, ZeroString >>)[1])

amountBorrowed(metrics, user, symbol) ==
    BigInt(TokenArrayOr(Find(metrics, user), symbol, << ZeroString, ZeroString >>)[2])

Pair(metrics, user, symbol) ==
    << amountSupplied(metrics, user, symbol), amountBorrowed(metrics, user, symbol) >>

Pairs(metrics) == [k \in Addresses \X Symbols |-> Pair(metrics, k[1], k[2])]

\* the pairs of `metrics` and of `old` differ at most at the keys in `keys`
SameExcept(metrics, old, keys) ==
    \A k \in (Addresses \X Symbols) \ keys : Pairs(metrics)[k] = Pairs(old)[k]

Handled == Len(delivered) > 0

Last == delivered[Len(delivered)]

\* the last handler ran on an event of one of `names` and no call failed
LastIs(names) == Handled /\ Last.event.name \in names /\ Last.fault = "none"

\* the key of the last event was in the transaction log when it arrived
LastIsReplay ==
    <<Last.event.transaction.hash, Last.event.log.logIndex>>
        \in TransactionIds(before.userTransactions)

\* the transaction rows with the key of the last event
LastRows ==
    { i \in DOMAIN userTransactions :
        userTransactions[i].id = <<Last.event.transaction.hash, Last.event.log.logIndex>> }

(***************************************************************************)
(* C1: after a Borrow or RepayBorrow of borrower U on token T with         *)
(* reported accountBorrows b, amountBorrowed[U,T] = b whatever it was, and *)
(* amountSupplied[U,T] is what it was before the event (0 without a pair). *)
(***************************************************************************)
C1_SnapshotOverwrite ==
    LastIs({"Borrow", "RepayBorrow"}) =>
        LET U == Last.event.args.borrower
            T == Last.event.token
        IN  /\ amountBorrowed(userMetrics, U, T) = Last.event.args.accountBorrows
            /\ amountSupplied(userMetrics, U, T) = amountSupplied(before.userMetrics, U, T)

\* a snapshot over a pair with a supply and another borrowed amount
C1_Witness ==
    /\ LastIs({"Borrow", "RepayBorrow"})
    /\ amountSupplied(before.userMetrics, Last.event.args.borrower, Last.event.token) > 0
    /\ amountBorrowed(before.userMetrics, Last.event.args.borrower, Last.event.token)
           # Last.event.args.accountBorrows
    /\ amountBorrowed(userMetrics, Last.event.args.borrower, Last.event.token)
           = Last.event.args.accountBorrows

(***************************************************************************)
(* C2: the same Borrow or RepayBorrow event applied twice in a row leaves  *)
(* the borrower's pair as the first application left it.                   *)
(***************************************************************************)
AppliedTwice(names) ==
    /\ Len(delivered) >= 2
    /\ LastIs(names)
    /\ delivered[Len(delivered) - 1] = Last

C2_SnapshotIdempotent ==
    AppliedTwice({"Borrow", "RepayBorrow"}) =>
        Pair(userMetrics, Last.event.args.borrower, Last.event.token)
            = Pair(before.userMetrics, Last.event.args.borrower, Last.event.token)

C2_Witness ==
    /\ AppliedTwice({"Borrow", "RepayBorrow"})
    /\ amountBorrowed(userMetrics, Last.event.args.borrower, Last.event.token)
           = Last.event.args.accountBorrows
    /\ Cardinality(LastRows) = 1

(***************************************************************************)
(* C3: a Mint or Redeem event leaves every position row as it was; a first *)
(* delivery only appends the event's row to the transaction log and links  *)
(* the user to the token.                                                  *)
(***************************************************************************)
LastUser ==
    IF Last.event.name = "Mint" THEN Last.event.args.minter ELSE Last.event.args.redeemer

C3_MintRedeemLogOnly ==
    LastIs({"Mint", "Redeem"}) =>
        /\ userMetrics = before.userMetrics
        /\ ~LastIsReplay =>
            /\ Len(userTransactions) = Len(before.userTransactions) + 1
            /\ SubSeq(userTransactions, 1, Len(before.userTransactions))
                   = before.userTransactions
            /\ Cardinality(LastRows) = 1
            /\ \A i \in LastRows :
                   /\ userTransactions[i].transactionType = Last.event.name
                   /\ userTransactions[i].userAddress = LastUser
                   /\ userTransactions[i].tokenSymbol = Last.event.token
            /\ AddressKeys(userAddresses)
                   = AddressKeys(before.userAddresses) \cup {<<LastUser, Last.event.token>>}
            /\ before.userAddresses \subseteq userAddresses
            /\ errorsLog = before.errorsLog
            /\ consoleErrors = before.consoleErrors

\* a first delivery of a Mint or Redeem to a store that holds a position
C3_Witness ==
    /\ LastIs({"Mint", "Redeem"})
    /\ ~LastIsReplay
    /\ \E u \in Users : before.userMetrics[u] # null
    /\ userMetrics = before.userMetrics
    /\ Len(userTransactions) = 2

(***************************************************************************)
(* C4: a Transfer from the zero address adds exactly `amount` to           *)
(* amountSupplied[to,T]; a Transfer to the zero address of an amount that  *)
(* the sender holds takes exactly `amount` from amountSupplied[from,T]; in *)
(* both cases no other pair changes.                                       *)
(***************************************************************************)
C4_MintBurnTransfer ==
    LastIs({"Transfer"}) =>
        LET from == Last.event.args.from
            to == Last.event.args.to
            amount == Last.event.args.amount
            T == Last.event.token
        IN  /\ from = zeroAddress =>
                /\ Pair(userMetrics, to, T)
                       = << amountSupplied(before.userMetrics, to, T) + amount,
                            amountBorrowed(before.userMetrics, to, T) >>
                /\ SameExcept(userMetrics, before.userMetrics, {<<to, T>>})
            /\ (/\ from # zeroAddress
                /\ to = zeroAddress
                /\ amount <= amountSupplied(before.userMetrics, from, T)) =>
                /\ Pair(userMetrics, from, T)
                       = << amountSupplied(before.userMetrics, from, T) - amount,
                            amountBorrowed(before.userMetrics, from, T) >>
                /\ SameExcept(userMetrics, before.userMetrics, {<<from, T>>})

\* a burn of less than the sender holds
C4_Witness ==
    /\ LastIs({"Transfer"})
    /\ Last.event.args.from # zeroAddress
    /\ Last.event.args.to = zeroAddress
    /\ Last.event.args.amount
           < amountSupplied(before.userMetrics, Last.event.args.from, Last.event.token)
    /\ amountSupplied(userMetrics, Last.event.args.from, Last.event.token) > 0

(***************************************************************************)
(* C5: an ordinary Transfer between two different accounts adds `amount`   *)
(* to amountSupplied[to,T] in every case, and takes exactly `amount` from  *)
(* amountSupplied[from,T] when the sender holds that much.                 *)
(***************************************************************************)
LastIsOrdinaryTransfer ==
    /\ LastIs({"Transfer"})
    /\ Last.event.args.from # zeroAddress
    /\ Last.event.args.to # zeroAddress

C5_OrdinaryTransfer ==
    (LastIsOrdinaryTransfer /\ Last.event.args.from # Last.event.args.to) =>
        LET from == Last.event.args.from
            to == Last.event.args.to
            amount == Last.event.args.amount
            T == Last.event.token
        IN  /\ amountSupplied(userMetrics, to, T)
                   = amountSupplied(before.userMetrics, to, T) + amount
            /\ amount <= amountSupplied(before.userMetrics, from, T) =>
                   amountSupplied(userMetrics, from, T)
                       = amountSupplied(before.userMetrics, from, T) - amount

\* an ordinary transfer of less than the sender holds
C5_Witness ==
    /\ LastIsOrdinaryTransfer
    /\ Last.event.args.from # Last.event.args.to
    /\ Last.event.args.amount
           < amountSupplied(before.userMetrics, Last.event.args.from, Last.event.token)
    /\ amountSupplied(userMetrics, Last.event.args.to, Last.event.token)
           = Last.event.args.amount
    /\ amountSupplied(userMetrics, Last.event.args.from, Last.event.token) > 0

(***************************************************************************)
(* C6: a Transfer (ordinary or burn) of more than the sender's             *)
(* amountSupplied sets the sender's amountSupplied to zero, appends        *)
(* exactly one anomaly record to the error log and still logs the          *)
(* transaction.                                                            *)
(***************************************************************************)
C6_UnderflowClampFlagged ==
    (/\ LastIs({"Transfer"})
     /\ Last.event.args.from # zeroAddress
     /\ Last.event.args.amount
            > amountSupplied(before.userMetrics, Last.event.args.from, Last.event.token)) =>
        /\ amountSupplied(userMetrics, Last.event.args.from, Last.event.token) = 0
        /\ Len(errorsLog) = Len(before.errorsLog) + 1
        /\ LastRows # {}

(***************************************************************************)
(* C7: the sum of amountSupplied of one token over all accounts is the     *)
(* same after an ordinary Transfer as before it (stated for the transfers  *)
(* between two different accounts, where it fails already).                *)
(***************************************************************************)
RECURSIVE SuppliedSum(_, _, _)
SuppliedSum(metrics, users, symbol) ==
    IF users = {} THEN 0
    ELSE LET u == CHOOSE x \in users : TRUE
         IN  amountSupplied(metrics, u, symbol) + SuppliedSum(metrics, users \ {u}, symbol)

TotalSupplied(metrics, symbol) == SuppliedSum(metrics, Users, symbol)

C7_SumConserved ==
    (LastIsOrdinaryTransfer /\ Last.event.args.from # Last.event.args.to) =>
        TotalSupplied(userMetrics, Last.event.token)
            = TotalSupplied(before.userMetrics, Last.event.token)

\* C7 as amended: an ordinary Transfer never lowers the sum, and keeps it
\* when sender and receiver differ and the sender holds the amount
C7_SumConservedWithinBalance ==
    LastIsOrdinaryTransfer =>
        LET from == Last.event.args.from
            T == Last.event.token
        IN  /\ TotalSupplied(userMetrics, T) >= TotalSupplied(before.userMetrics, T)
            /\ (/\ from # Last.event.args.to
                /\ Last.event.args.amount <= amountSupplied(before.userMetrics, from, T)) =>
                   TotalSupplied(userMetrics, T) = TotalSupplied(before.userMetrics, T)

\* a transfer within the sender's balance that moved an amount
C7_Witness ==
    /\ LastIsOrdinaryTransfer
    /\ Last.event.args.from # Last.event.args.to
    /\ Last.event.args.amount
           <= amountSupplied(before.userMetrics, Last.event.args.from, Last.event.token)
    /\ amountSupplied(userMetrics, Last.event.args.to, Last.event.token) > 0
    /\ TotalSupplied(userMetrics, Last.event.token)
           = TotalSupplied(before.userMetrics, Last.event.token)

(***************************************************************************)
(* C8: LiquidateBorrow with repayAmount r writes                           *)
(* max(0, currentBorrowed - r) to amountBorrowed[B,T]; when                *)
(* r > currentBorrowed it writes 0 and flags an anomaly in the error log.  *)
(***************************************************************************)
C8_LiquidateClamped ==
    LastIs({"LiquidateBorrow"}) =>
        LET B == Last.event.args.borrower
            T == Last.event.token
            r == Last.event.args.repayAmount
            currentBorrowed == amountBorrowed(before.userMetrics, B, T)
        IN  /\ amountBorrowed(userMetrics, B, T)
                   = IF currentBorrowed - r > 0 THEN currentBorrowed - r ELSE 0
            /\ r > currentBorrowed =>
                   /\ amountBorrowed(userMetrics, B, T) = 0
                   /\ Len(errorsLog) > Len(before.errorsLog)

(***************************************************************************)
(* C9: LiquidateBorrow by liquidator L of borrower B (L # B) with          *)
(* r <= amountBorrowed[B,T] lowers amountBorrowed[B,T] by exactly r,       *)
(* changes neither amountSupplied[B,T] nor a balance of L, and the log     *)
(* holds the event's row with user L and relatedAddress B.                 *)
(***************************************************************************)
LastIsCoveredLiquidation ==
    /\ LastIs({"LiquidateBorrow"})
    /\ Last.event.args.liquidator # Last.event.args.borrower
    /\ Last.event.args.repayAmount
           <= amountBorrowed(before.userMetrics, Last.event.args.borrower, Last.event.token)

C9_Liquidate ==
    LastIsCoveredLiquidation =>
        LET L == Last.event.args.liquidator
            B == Last.event.args.borrower
            T == Last.event.token
            r == Last.event.args.repayAmount
        IN  /\ amountBorrowed(userMetrics, B, T) = amountBorrowed(before.userMetrics, B, T) - r
            /\ amountSupplied(userMetrics, B, T) = amountSupplied(before.userMetrics, B, T)
            /\ \A sym \in Symbols : Pair(userMetrics, L, sym) = Pair(before.userMetrics, L, sym)
            /\ Cardinality(LastRows) = 1
            /\ \A i \in LastRows :
                   /\ userTransactions[i].transactionType = "LiquidateBorrow"
                   /\ userTransactions[i].userAddress = L
                   /\ userTransactions[i].relatedAddress = B
                   /\ userTransactions[i].amount = r

\* a first delivery that repays a part of the borrowed amount
C9_Witness ==
    /\ LastIsCoveredLiquidation
    /\ ~LastIsReplay
    /\ amountBorrowed(userMetrics, Last.event.args.borrower, Last.event.token) > 0
    /\ amountBorrowed(userMetrics, Last.event.args.borrower, Last.event.token)
           < amountBorrowed(before.userMetrics, Last.event.args.borrower, Last.event.token)

(***************************************************************************)
(* C10: a transaction record whose (transactionHash, logIndex) is in the   *)
(* log already is ignored: the log keeps its rows and the duplicate is not *)
(* recorded as a processing failure.                                       *)
(***************************************************************************)
C10_DuplicateIgnored ==
    (Handled /\ Last.fault = "none" /\ LastIsReplay) =>
        /\ userTransactions = before.userTransactions
        /\ errorsLog = before.errorsLog

(***************************************************************************)
(* C11: no handler lets an exception escape.  A storage read, transaction  *)
(* append or balance upsert that fails is caught in the handler and        *)
(* reported to the error log with its context, and the event delivered     *)
(* after it is processed normally.                                         *)
(***************************************************************************)
\* the calls that every run of the handler reaches
CertainFaults(name) == FaultsOf(name) \cap {"find", "insertTransaction", "upsert"}

\* the `where` of the context that reports a failure of the call `fault`
ReportedWhere(name, fault) ==
    IF fault = "insertTransaction" THEN "Failed to store event"
    ELSE IF name = "Transfer" THEN "Error processing Transfer event"
    ELSE IF name = "Borrow" THEN "Borrow event error"
    ELSE IF name = "RepayBorrow" THEN "RepayBorrow event error"
    ELSE "LiquidateBorrow event error"

NewErrorRecords ==
    { errorsLog[i] : i \in (Len(before.errorsLog) + 1) .. Len(errorsLog) }

\* the delivery before the last one was troubled, the last one was not
AfterTrouble ==
    /\ Len(delivered) >= 2
    /\ Troubled(delivered[Len(delivered) - 1])
    /\ ~Troubled(Last)

C11_FailuresCaught ==
    /\ ~unhandled
    /\ (/\ Handled
        /\ Last.fault \in CertainFaults(Last.event.name)
        /\ Last.appendOk) =>
           \E r \in NewErrorRecords :
               /\ r.context.where = ReportedWhere(Last.event.name, Last.fault)
               /\ r.context.token = Last.event.token
    /\ AfterTrouble =>
           /\ Cardinality(LastRows) = 1
           /\ C1_SnapshotOverwrite
           /\ C3_MintRedeemLogOnly
           /\ C4_MintBurnTransfer
           /\ C5_OrdinaryTransfer
           /\ C9_Liquidate

\* a failed upsert was reported, then a Borrow set its snapshot
C11_Witness ==
    /\ AfterTrouble
    /\ delivered[Len(delivered) - 1].fault = "upsert"
    /\ delivered[Len(delivered) - 1].appendOk
    /\ Len(before.errorsLog) = 1
    /\ LastIs({"Borrow"})
    /\ amountBorrowed(userMetrics, Last.event.args.borrower, Last.event.token)
           = Last.event.args.accountBorrows
    /\ ~unhandled

(***************************************************************************)
(* C14: logError never raises.  When appending the fault record fails, the *)
(* failure is swallowed: it is printed on the console, nothing reaches the *)
(* error log, and the handler that called logError still completes.        *)
(***************************************************************************)
NewConsole ==
    { i \in (Len(before.consoleErrors) + 1) .. Len(consoleErrors) : TRUE }

CatchTags == {"[EVENT ERROR]", "[DB ERROR]"}

\* logError was called in the last delivery and its append failed
LogErrorFailed ==
    /\ Handled
    /\ ~Last.appendOk
    /\ \E i \in NewConsole : consoleErrors[i] \in CatchTags

\* a Borrow or RepayBorrow whose storeEvent failed inside and whose own
\* calls succeeded
LastStoreEventFailed ==
    /\ Last.event.name \in {"Borrow", "RepayBorrow"}
    /\ Last.fault \notin {"find", "upsert"}
    /\ \E i \in NewConsole : consoleErrors[i] = "[DB ERROR]"

C14_LogErrorSwallows ==
    LogErrorFailed =>
        /\ ~unhandled
        /\ errorsLog = before.errorsLog
        /\ \A i \in NewConsole :
               consoleErrors[i] \in CatchTags =>
                   /\ i + 1 \in NewConsole
                   /\ consoleErrors[i + 1] = "Failed to write to error log"
        /\ LastStoreEventFailed =>
               amountBorrowed(userMetrics, Last.event.args.borrower,
                              Last.event.token)
                   = Last.event.args.accountBorrows

\* the record of a Borrow could not be stored nor the failure logged, and
\* the handler went on to write the snapshot
C14_Witness ==
    /\ LogErrorFailed
    /\ LastStoreEventFailed
    /\ Last.event.name = "Borrow"
    /\ Last.fault = "insertTransaction"
    /\ ~unhandled
    /\ amountBorrowed(before.userMetrics, Last.event.args.borrower,
                      Last.event.token) = 0
    /\ amountBorrowed(userMetrics, Last.event.args.borrower, Last.event.token)
           = Last.event.args.accountBorrows

(***************************************************************************)
(* C13: a Transfer (mint pattern, burn pattern or ordinary) never changes  *)
(* the amountBorrowed of any user for any token.                           *)
(***************************************************************************)
C13_TransferKeepsBorrowed ==
    LastIs({"Transfer"}) =>
        \A user \in Addresses, symbol \in Symbols :
            amountBorrowed(userMetrics, user, symbol)
                = amountBorrowed(before.userMetrics, user, symbol)

\* an ordinary Transfer out of an account that carries a debt in that token
C13_Witness ==
    /\ LastIsOrdinaryTransfer
    /\ Last.event.args.from # Last.event.args.to
    /\ amountBorrowed(before.userMetrics, Last.event.args.from, Last.event.token) > 0
    /\ amountBorrowed(userMetrics, Last.event.args.from, Last.event.token)
           = amountBorrowed(before.userMetrics, Last.event.args.from, Last.event.token)
    /\ amountSupplied(userMetrics, Last.event.args.to, Last.event.token)
           > amountSupplied(before.userMetrics, Last.event.args.to, Last.event.token)

(***************************************************************************)
(* C15: the delta paths are gated by the insert into the transaction log:  *)
(* a LiquidateBorrow or Transfer whose (txHash, logIndex) is already       *)
(* recorded leaves every balance as it was.                                *)
(***************************************************************************)
C15_ReplaySkipsDelta ==
    (LastIs({"LiquidateBorrow", "Transfer"}) /\ LastIsReplay) =>
        Pairs(userMetrics) = Pairs(before.userMetrics)

(***************************************************************************)
(* C16: in every reachable state every amountSupplied and every            *)
(* amountBorrowed is non-negative.                                         *)
(***************************************************************************)
C16_NonNegative ==
    \A user \in Addresses, symbol \in Symbols :
        /\ amountSupplied(userMetrics, user, symbol) >= 0
        /\ amountBorrowed(userMetrics, user, symbol) >= 0

(***************************************************************************)
(* C17: the transaction log is append-only.  Once a record with a key      *)
(* exists, the log holds that one record, with the same field values, in   *)
(* every later state, also when the event is delivered again.              *)
(***************************************************************************)
RowsWithId(transactions, id) ==
    SelectSeq(transactions, LAMBDA row : row.id = id)

C17_AppendOnly ==
    [][ \A id \in TransactionIds(userTransactions) :
            RowsWithId(userTransactions', id) = RowsWithId(userTransactions, id)
      ]_vars

\* an event was delivered again and its record is the one stored before
C17_Witness ==
    /\ Handled
    /\ Last.fault = "none"
    /\ LastIsReplay
    /\ Len(userTransactions) = 1
    /\ userTransactions = before.userTransactions
    /\ userTransactions[1].id
           = << Last.event.transaction.hash, Last.event.log.logIndex >>

(***************************************************************************)
(* C18: every delivered event whose storage calls succeed has exactly one  *)
(* record in the transaction log, keyed by (transactionHash, logIndex),    *)
(* that carries the event kind, the user, the token, the amount and the    *)
(* related address; this holds for Mint and Redeem and for a Transfer      *)
(* whose sender was clamped as well.                                       *)
(***************************************************************************)
RecordedUser(event) ==
    CASE event.name \in {"Borrow", "RepayBorrow"} -> event.args.borrower
      [] event.name = "Mint"            -> event.args.minter
      [] event.name = "Redeem"          -> event.args.redeemer
      [] event.name = "LiquidateBorrow" -> event.args.liquidator
      [] event.name = "Transfer"        -> event.args.from

RecordedAmount(event) ==
    CASE event.name = "Borrow"          -> event.args.borrowAmount
      [] event.name = "RepayBorrow"     -> event.args.repayAmount
      [] event.name = "Mint"            -> event.args.mintAmount
      [] event.name = "Redeem"          -> event.args.redeemAmount
      [] event.name = "LiquidateBorrow" -> event.args.repayAmount
      [] event.name = "Transfer"        -> event.args.amount

RecordedRelated(event) ==
    CASE event.name \in {"Borrow", "Mint", "Redeem"} -> undefined
      [] event.name = "RepayBorrow" ->
             IF event.args.payer # event.args.borrower
             THEN event.args.payer ELSE undefined
      [] event.name = "LiquidateBorrow" -> event.args.borrower
      [] event.name = "Transfer" ->
             IF event.args.to # event.args.from
             THEN event.args.to ELSE undefined

C18_OneRecordPerEvent ==
    (Handled /\ Last.fault = "none") =>
        /\ Cardinality(LastRows) = 1
        /\ \A i \in LastRows :
               /\ userTransactions[i].transactionType = Last.event.name
               /\ userTransactions[i].userAddress = RecordedUser(Last.event)
               /\ userTransactions[i].tokenSymbol = Last.event.token
               /\ userTransactions[i].amount = RecordedAmount(Last.event)
               /\ userTransactions[i].relatedAddress = RecordedRelated(Last.event)
               /\ userTransactions[i].transactionHash = Last.event.transaction.hash

\* a Transfer that was clamped at the sender, with its record in the log
C18_Witness ==
    /\ LastIsOrdinaryTransfer
    /\ ~LastIsReplay
    /\ Last.event.args.from # Last.event.args.to
    /\ amountSupplied(before.userMetrics, Last.event.args.from, Last.event.token)
           < Last.event.args.amount
    /\ Len(userTransactions) = Len(before.userTransactions) + 1
    /\ userTransactions[Len(userTransactions)].transactionType = "Transfer"
    /\ userTransactions[Len(userTransactions)].amount = Last.event.args.amount
    /\ Len(userTransactions) \in LastRows

(***************************************************************************)
(* C19: the related address is set only when the counterparty differs.     *)
(* The record of a RepayBorrow has the borrower as its user and the payer  *)
(* as related address when payer # borrower, none otherwise; the record of *)
(* a Transfer has `from` as its user and `to` as related address when      *)
(* to # from, none otherwise.                                              *)
(***************************************************************************)
Counterparty(event) ==
    IF event.name = "RepayBorrow" THEN event.args.payer ELSE event.args.to

PrimaryUser(event) ==
    IF event.name = "RepayBorrow" THEN event.args.borrower ELSE event.args.from

C19_RelatedOnlyWhenDifferent ==
    LastIs({"RepayBorrow", "Transfer"}) =>
        /\ LastRows # {}
        /\ \A i \in LastRows :
               /\ userTransactions[i].userAddress = PrimaryUser(Last.event)
               /\ Counterparty(Last.event) # PrimaryUser(Last.event) =>
                      userTransactions[i].relatedAddress = Counterparty(Last.event)
               /\ Counterparty(Last.event) = PrimaryUser(Last.event) =>
                      userTransactions[i].relatedAddress = undefined

\* a borrower repaid their own debt: the record has no related address
C19_Witness ==
    /\ LastIs({"RepayBorrow"})
    /\ ~LastIsReplay
    /\ Last.event.args.payer = Last.event.args.borrower
    /\ userTransactions[Len(userTransactions)].userAddress = Last.event.args.borrower
    /\ userTransactions[Len(userTransactions)].relatedAddress = undefined
    /\ Len(userTransactions) \in LastRows

(***************************************************************************)
(* C20: linking an address to a token is insert-or-ignore and write-once   *)
(* per (address, token).  After an event is recorded the link of its user  *)
(* and, when there is one, of its related address exists; linking a pair   *)
(* that is linked already does not fail, adds no second row and alters     *)
(* nothing.                                                                *)
(***************************************************************************)
Linked(address, symbol) == << address, symbol >> \in AddressKeys(userAddresses)

C20_AddressLinking ==
    /\ Cardinality(userAddresses) = Cardinality(AddressKeys(userAddresses))
    /\ Handled => before.userAddresses \subseteq userAddresses
    /\ \A i \in DOMAIN userTransactions :
           /\ Linked(userTransactions[i].userAddress, userTransactions[i].tokenSymbol)
           /\ userTransactions[i].relatedAddress # undefined =>
                  Linked(userTransactions[i].relatedAddress,
                         userTransactions[i].tokenSymbol)
    /\ (Handled /\ Last.fault = "none" /\ ~LastIsReplay) =>
           errorsLog = before.errorsLog

\* an event was recorded whose user and related address were linked to the
\* token already: the links are the ones that were there
C20_Witness ==
    /\ Handled
    /\ Last.fault = "none"
    /\ ~LastIsReplay
    /\ Len(userTransactions) = 2
    /\ userTransactions[2].relatedAddress # undefined
    /\ << userTransactions[2].userAddress, userTransactions[2].tokenSymbol >>
           \in AddressKeys(before.userAddresses)
    /\ << userTransactions[2].relatedAddress, userTransactions[2].tokenSymbol >>
           \in AddressKeys(before.userAddresses)
    /\ userAddresses = before.userAddresses
    /\ errorsLog = before.errorsLog

(***************************************************************************)
(* C12: the reconciliation of a (user, token) key is serialized.  For      *)
(* every interleaving of two handlers that update the same pair (two       *)
(* Transfers, or a Transfer and a Borrow or RepayBorrow), the pairs at the *)
(* end are the pairs that one of the two sequential orders gives.          *)
(***************************************************************************)
\* the users whose pair the handler of `event` writes
Touched(event) ==
    IF event.name \in {"Borrow", "RepayBorrow"}
    THEN {event.args.borrower}
    ELSE {event.args.from, event.args.to} \ {zeroAddress}

\* the whole handler of `event`, run alone
HandlerOf(store, event) ==
    CASE event.name = "Borrow"      -> BorrowHandler(store, event, "none", TRUE)
      [] event.name = "RepayBorrow" -> RepayBorrowHandler(store, event, "none", TRUE)
      [] event.name = "Transfer"    -> TransferHandler(store, event, "none", TRUE)

InOrder(first, second) ==
    Pairs(HandlerOf(HandlerOf(EmptyStore, first), second).userMetrics)

RaceDone ==
    \A slot \in Slots : running[slot] # Idle /\ NextAwait(slot) = "none"

C12_Serialized ==
    (/\ RaceDone
     /\ Touched(running[1].event) \cap Touched(running[2].event) # {}) =>
        \/ Pairs(userMetrics) = InOrder(running[1].event, running[2].event)
        \/ Pairs(userMetrics) = InOrder(running[2].event, running[1].event)

(***************************************************************************)
(* C21: position rows are never deleted and are zero-initialized on first  *)
(* touch.  When a handler updates (user, token) and the user has no row,   *)
(* or the row's array for the token is empty, the new pair is what the     *)
(* handler's rule gives from (0, 0); a row that exists stays.              *)
(***************************************************************************)
\* the users whose pair the handler of `event` upserts
UpdatedUsers(event) ==
    CASE event.name \in {"Borrow", "RepayBorrow", "LiquidateBorrow"} ->
             {event.args.borrower}
      [] event.name \in {"Mint", "Redeem"} -> {}
      [] event.name = "Transfer" ->
             {event.args.from, event.args.to} \ {zeroAddress}

\* the pair that the rule of `event` gives to `user` from (0, 0)
FromZero(event, user) ==
    CASE event.name \in {"Borrow", "RepayBorrow"} -> << 0, event.args.accountBorrows >>
      [] event.name = "LiquidateBorrow" -> << 0, 0 >>
      [] event.name = "Transfer" ->
             IF user = event.args.to THEN << event.args.amount, 0 >> ELSE << 0, 0 >>

FirstTouch(user, symbol) == ~HasTokenArray(Find(before.userMetrics, user), symbol)

C21_ZeroInitNeverDeleted ==
    Handled =>
        /\ \A user \in Addresses :
               before.userMetrics[user] # null => userMetrics[user] # null
        /\ Last.fault = "none" =>
               \A user \in UpdatedUsers(Last.event) :
                   FirstTouch(user, Last.event.token) =>
                       /\ HasTokenArray(Find(userMetrics, user), Last.event.token)
                       /\ Pair(userMetrics, user, Last.event.token)
                              = FromZero(Last.event, user)

\* a user with a row and an empty array for the token receives a Transfer
C21_Witness ==
    /\ LastIs({"Transfer"})
    /\ Last.event.args.to # zeroAddress
    /\ Last.event.args.to # Last.event.args.from
    /\ before.userMetrics[Last.event.args.to] # null
    /\ before.userMetrics[Last.event.args.to][Last.event.token] = << >>
    /\ Pair(userMetrics, Last.event.args.to, Last.event.token)
           = << Last.event.args.amount, 0 >>
    /\ \E symbol \in Symbols \ {Last.event.token} :
           HasTokenArray(Find(userMetrics, Last.event.args.to), symbol)

(***************************************************************************)
(* C22: when every storage call eventually returns or fails, the handler   *)
(* of every delivered event eventually ends, completed or failed and       *)
(* logged, without a retry loop, so the handler of the event delivered     *)
(* after it eventually runs.                                               *)
(***************************************************************************)
C22_HandlersTerminate ==
    /\ \A slot \in Slots : (running[slot] # Idle) ~> Ended(slot)
    /\ <>(\A slot \in Slots : running[slot] # Idle)

\* the first handler failed at its upsert and logged it, the second ran to
\* its end
C22_Witness ==
    /\ \A slot \in Slots : Ended(slot)
    /\ Len(errorsLog) = 1
    /\ errorsLog[1].context.where = "Error processing Transfer event"
    /\ Len(userTransactions) = 2
    /\ \E user \in Users :
           HasTokenArray(Find(userMetrics, user), running[2].event.token)

(***************************************************************************)
(* C23: a self-transfer, an ordinary Transfer with from = to and a         *)
(* non-sentinel address, leaves the amountSupplied of that address as it   *)
(* was, whatever the amount.                                               *)
(***************************************************************************)
C23_SelfTransferNeutral ==
    (LastIsOrdinaryTransfer /\ Last.event.args.from = Last.event.args.to) =>
        amountSupplied(userMetrics, Last.event.args.from, Last.event.token)
            = amountSupplied(before.userMetrics, Last.event.args.from, Last.event.token)

(***************************************************************************)
(* C24: an ordinary Transfer is atomic with respect to storage failures.   *)
(* After the handler has ended, the decrease of the sender and the         *)
(* increase of the receiver are both written or neither is, also when one  *)
(* of the two upserts fails.                                               *)
(***************************************************************************)
\* the last delivery was a Transfer between two different users of an
\* amount that the sender held, with or without a failing call
LastIsCoveredTransfer ==
    /\ Handled
    /\ Last.event.name = "Transfer"
    /\ Last.event.args.from # zeroAddress
    /\ Last.event.args.to # zeroAddress
    /\ Last.event.args.from # Last.event.args.to
    /\ amountSupplied(before.userMetrics, Last.event.args.from, Last.event.token)
           >= Last.event.args.amount

SenderWritten ==
    amountSupplied(userMetrics, Last.event.args.from, Last.event.token)
        = amountSupplied(before.userMetrics, Last.event.args.from, Last.event.token)
              - Last.event.args.amount

ReceiverWritten ==
    amountSupplied(userMetrics, Last.event.args.to, Last.event.token)
        = amountSupplied(before.userMetrics, Last.event.args.to, Last.event.token)
              + Last.event.args.amount

C24_TransferAtomic ==
    LastIsCoveredTransfer => (SenderWritten <=> ReceiverWritten)

(***************************************************************************)
(* C25: balances and the transaction log stay consistent.  Whenever a      *)
(* handler changes a pair because of an event, the log holds a record with *)
(* the (transactionHash, logIndex) of that event; when the append of the   *)
(* record fails, the balance update of the event is not applied.           *)
(***************************************************************************)
C25_BalanceImpliesRecord ==
    (Handled /\ Pairs(userMetrics) # Pairs(before.userMetrics)) =>
        LastRows # {}

(***************************************************************************)
(* C26: an event on token T that names user U (and counterparty V) changes *)
(* only the pairs (U, T) and (V, T).  The pairs of U and V for every other *)
(* token and all pairs of every other user are the same after the handler  *)
(* as before it.                                                           *)
(***************************************************************************)
\* the addresses that the event names
NamedUsers(event) ==
    CASE event.name = "Borrow"          -> {event.args.borrower}
      [] event.name = "RepayBorrow"     -> {event.args.payer, event.args.borrower}
      [] event.name = "Mint"            -> {event.args.minter}
      [] event.name = "Redeem"          -> {event.args.redeemer}
      [] event.name = "LiquidateBorrow" -> {event.args.liquidator, event.args.borrower}
      [] event.name = "Transfer"        -> {event.args.from, event.args.to}

C26_Frame ==
    (Handled /\ Last.fault = "none") =>
        \A user \in Addresses, symbol \in Symbols :
            (user \notin NamedUsers(Last.event) \/ symbol # Last.event.token) =>
                Pair(userMetrics, user, symbol) = Pair(before.userMetrics, user, symbol)

\* a user who holds a pair in one market gets a pair in the other market,
\* and another user holds a pair too
C26_Witness ==
    /\ Handled
    /\ Last.fault = "none"
    /\ \E user \in NamedUsers(Last.event), symbol \in Symbols \ {Last.event.token} :
           /\ Pair(before.userMetrics, user, symbol) # << 0, 0 >>
           /\ Pair(userMetrics, user, symbol) = Pair(before.userMetrics, user, symbol)
           /\ Pair(userMetrics, user, Last.event.token)
                  # Pair(before.userMetrics, user, Last.event.token)

(***************************************************************************)
(* C28: the all-zeros sentinel address is never recorded as a user.  No    *)
(* address link and no position row has the sentinel as its address,       *)
(* whatever mint-pattern or burn-pattern Transfers are processed.          *)
(***************************************************************************)
C28_SentinelNeverRecorded ==
    /\ userMetrics[zeroAddress] = null
    /\ \A link \in userAddresses : link.userAddress # zeroAddress

(***************************************************************************)
(* C27: two handlers that run concurrently on the same user but on         *)
(* different tokens do not interfere.  For every interleaving, the final   *)
(* pair of each token is the pair obtained by processing the event of that *)
(* token alone, because an upsert overwrites the column of its token only. *)
(***************************************************************************)
\* the pairs of market `symbol` after the handler of `event` has run alone
Alone(event, user) ==
    Pair(HandlerOf(EmptyStore, event).userMetrics, user, event.token)

C27_MarketsIndependent ==
    (/\ RaceDone
     /\ running[1].event.token # running[2].event.token) =>
        \A slot \in Slots, user \in Addresses :
            Pair(userMetrics, user, running[slot].event.token)
                = Alone(running[slot].event, user)

\* both handlers wrote a pair of the same user, one per market
C27_Witness ==
    /\ RaceDone
    /\ running[1].event.token # running[2].event.token
    /\ \E user \in Touched(running[1].event) \cap Touched(running[2].event) :
           /\ Pair(userMetrics, user, running[1].event.token) # << 0, 0 >>
           /\ Pair(userMetrics, user, running[2].event.token) # << 0, 0 >>

====
